---- MODULE Spec2Model ----
(***************************************************************************)
(* Client-side scripts of the tourism site:                                *)
(*   FormGuard        templates/static/js/custom-scripts.js                *)
(*   SessionPresenter the authentication script (currentUser,              *)
(*                    initializeAuth, updateUIFor..., handleLogout)        *)
(* JavaScript strings are sequences of one-character strings, so that      *)
(* JSON.parse, string comparison and truthiness are computed on the text.  *)
(* JavaScript values are records [kind, str, props].                       *)
(* A handler runs to completion on the UI thread, so each handler is one   *)
(* action; a handler that throws keeps the effects made before the throw.  *)
(* The DOM honours the markup contract: the elements with the ids          *)
(* signup-form, password, confirm-password and username-display exist, and *)
(* no element carries both visibility classes.                             *)
(***************************************************************************)
EXTENDS Integers, Sequences, FiniteSets, TLC

VARIABLES storage, currentUser, guestDisplay, userDisplay, usernameText,
          href, authPhase, formReady, password, confirmPassword,
          defaultPrevented, alertMessage, lastOp, before,
          sessionDestroyed, logoutTrace

vars == <<storage, currentUser, guestDisplay, userDisplay, usernameText,
          href, authPhase, formReady, password, confirmPassword,
          defaultPrevented, alertMessage, lastOp, before,
          sessionDestroyed, logoutTrace>>

(* ---------------- bounds ---------------- *)
NumGuestEls == 2
NumUserEls == 2

GuestEls == 1..NumGuestEls
UserEls == 1..NumUserEls

(* ---------------- JavaScript values ---------------- *)
JSNull == [kind |-> "null", str |-> <<>>, props |-> <<>>]
JSUndefined == [kind |-> "undefined", str |-> <<>>, props |-> <<>>]
JSString(s) == [kind |-> "string", str |-> s, props |-> <<>>]
JSObject(ps) == [kind |-> "object", str |-> <<>>, props |-> ps]

TruthyNotNull(v) == v.kind \in {"object", "string"}

Truthy(v) ==
    \/ v.kind = "object"
    \/ v.kind = "string" /\ Len(v.str) > 0

(* obj.key: TypeError on null and undefined, undefined when the property   *)
(* is missing; of duplicate keys JSON.parse keeps the last.                *)
RECURSIVE LookupProp(_, _, _)
LookupProp(ps, key, i) ==
    IF i = 0 THEN JSUndefined
    ELSE IF ps[i].key = key THEN ps[i].val
    ELSE LookupProp(ps, key, i - 1)

GetProp(v, key) ==
    IF v.kind \in {"null", "undefined"}
    THEN [threw |-> TRUE, val |-> JSUndefined]
    ELSE IF v.kind = "object"
    THEN [threw |-> FALSE, val |-> LookupProp(v.props, key, Len(v.props))]
    ELSE [threw |-> FALSE, val |-> JSUndefined]

ObjectObjectText == <<"[", "o", "b", "j", "e", "c", "t", " ", "O", "b", "j", "e", "c", "t", "]">>

(* node.textContent = v : null and undefined give the empty text           *)
TextContentOf(v) ==
    IF v.kind = "string" THEN v.str
    ELSE IF v.kind = "object" THEN ObjectObjectText
    ELSE <<>>

(* ---------------- JSON.parse ---------------- *)
(* Grammar handled: null, "string" without escapes, {} and                 *)
(* {"key":value,...} without white space.  Every other text is rejected,   *)
(* so the stored texts are drawn from this grammar or are not JSON at all. *)
QUOTE == "\""
NullText == <<"n", "u", "l", "l">>
ParseFail == [ok |-> FALSE, val |-> JSUndefined, next |-> 0]

RECURSIVE ScanString(_, _)
ScanString(s, j) ==
    IF j > Len(s) THEN 0
    ELSE IF s[j] = QUOTE THEN j
    ELSE IF s[j] = "\\" THEN 0
    ELSE ScanString(s, j + 1)

ParseString(s, i) ==
    IF i > Len(s) \/ s[i] # QUOTE THEN ParseFail
    ELSE LET e == ScanString(s, i + 1)
         IN IF e = 0 THEN ParseFail
            ELSE [ok |-> TRUE, val |-> JSString(SubSeq(s, i + 1, e - 1)), next |-> e + 1]

RECURSIVE ParseValue(_, _), ParseMembers(_, _, _)
ParseValue(s, i) ==
    IF i > Len(s) THEN ParseFail
    ELSE IF s[i] = QUOTE THEN ParseString(s, i)
    ELSE IF s[i] = "{"
    THEN IF i + 1 <= Len(s) /\ s[i + 1] = "}"
         THEN [ok |-> TRUE, val |-> JSObject(<<>>), next |-> i + 2]
         ELSE ParseMembers(s, i + 1, <<>>)
    ELSE IF i + 3 <= Len(s) /\ SubSeq(s, i, i + 3) = NullText
    THEN [ok |-> TRUE, val |-> JSNull, next |-> i + 4]
    ELSE ParseFail

ParseMembers(s, i, acc) ==
    LET k == ParseString(s, i)
    IN IF ~k.ok \/ k.next > Len(s) \/ s[k.next] # ":" THEN ParseFail
       ELSE LET v == ParseValue(s, k.next + 1)
            IN IF ~v.ok \/ v.next > Len(s) THEN ParseFail
               ELSE LET ps == Append(acc, [key |-> k.val.str, val |-> v.val])
                    IN IF s[v.next] = "}"
                       THEN [ok |-> TRUE, val |-> JSObject(ps), next |-> v.next + 1]
                       ELSE IF s[v.next] = ","
                       THEN ParseMembers(s, v.next + 1, ps)
                       ELSE ParseFail

(* JSON.parse(text): the value, or a SyntaxError                           *)
JSONparse(s) ==
    LET r == ParseValue(s, 1)
    IN IF r.ok /\ r.next = Len(s) + 1
       THEN [threw |-> FALSE, val |-> r.val]
       ELSE [threw |-> TRUE, val |-> JSUndefined]

(* ---------------- inputs: stored texts and field values ---------------- *)
Q(s) == <<QUOTE>> \o s \o <<QUOTE>>
NameKey == <<"n", "a", "m", "e">>
Ada == <<"A", "d", "a">>
Bo == <<"B", "o">>
ProfileText(name) == <<"{">> \o Q(NameKey) \o <<":">> \o Q(name) \o <<"}">>
IdAdaText == <<"{">> \o Q(<<"i", "d">>) \o <<":">> \o Q(<<"7">>) \o <<",">>
             \o Q(NameKey) \o <<":">> \o Q(Ada) \o <<"}">>
EmptyObjectText == <<"{", "}">>
NameNullText == <<"{">> \o Q(NameKey) \o <<":">> \o NullText \o <<"}">>
TruncatedText == <<"{">> \o Q(NameKey) \o <<":">> \o Q(Ada)

(* stored profiles that are well formed, with the name they carry          *)
WellFormedProfiles ==
    { [text |-> ProfileText(Ada), name |-> Ada,
       value |-> JSObject(<<[key |-> NameKey, val |-> JSString(Ada)]>>)],
      [text |-> ProfileText(Bo), name |-> Bo,
       value |-> JSObject(<<[key |-> NameKey, val |-> JSString(Bo)]>>)],
      [text |-> IdAdaText, name |-> Ada,
       value |-> JSObject(<<[key |-> <<"i", "d">>, val |-> JSString(<<"7">>)],
                            [key |-> NameKey, val |-> JSString(Ada)]>>)] }

(* stored texts that are JSON but no profile                               *)
NonProfileJsonTexts == { EmptyObjectText, NameNullText, NullText, Q(Ada) }

(* stored texts that are not JSON                                          *)
MalformedTexts == { TruncatedText, Ada }

UserTexts ==
    { p.text : p \in WellFormedProfiles } \cup NonProfileJsonTexts
        \cup MalformedTexts \cup { <<>> }

TokenTexts == { <<>>, <<"a", "b", "c", "1", "2", "3">>, <<"t", "2">> }

FieldValues == { <<>>, <<"x">>, <<"y">> }

Keys == {"authToken", "user"}
ValuesOf(k) == IF k = "authToken" THEN TokenTexts ELSE UserTexts

(* every content localStorage can have under the two keys                  *)
Storages ==
    UNION { { st \in [D -> TokenTexts \cup UserTexts] :
                \A k \in D : st[k] \in ValuesOf(k) } : D \in SUBSET Keys }

(* ---------------- localStorage ---------------- *)
getItem(st, k) == IF k \in DOMAIN st THEN JSString(st[k]) ELSE JSNull
removeItem(st, k) == [x \in (DOMAIN st) \ {k} |-> st[x]]
setItem(st, k, v) == [x \in (DOMAIN st) \cup {k} |-> IF x = k THEN v ELSE st[x]]

(* ---------------- the page ---------------- *)
(* style.display of an element is "" until a script sets it               *)
InitialUsernameText == <<>>
NoNavigation == ""
LoginPath == "/login.html"
MismatchMessage == "Passwords do not match!"

FreshPage ==
    [ currentUser |-> JSNull,
      guestDisplay |-> [e \in GuestEls |-> ""],
      userDisplay |-> [e \in UserEls |-> ""],
      usernameText |-> InitialUsernameText,
      href |-> NoNavigation,
      threw |-> FALSE ]

ThePage ==
    [ currentUser |-> currentUser,
      guestDisplay |-> guestDisplay,
      userDisplay |-> userDisplay,
      usernameText |-> usernameText,
      href |-> href,
      threw |-> FALSE ]

(* ---------------- SessionPresenter ---------------- *)
updateUIForGuestToggle(pg) ==
    [pg EXCEPT !.guestDisplay = [e \in GuestEls |->
                   IF pg.guestDisplay[e] = "block" THEN "none" ELSE "block"],
               !.userDisplay = [e \in UserEls |->
                   IF pg.userDisplay[e] = "none" THEN "block" ELSE "none"]]

updateUIForGuest(pg) ==
    [pg EXCEPT !.guestDisplay = [e \in GuestEls |-> "block"],
               !.userDisplay = [e \in UserEls |-> "none"]]

updateUIForLoggedInUserNoName(pg) ==
    LET p1 == [pg EXCEPT !.guestDisplay = [e \in GuestEls |-> "none"]]
        p2 == [p1 EXCEPT !.userDisplay = [e \in UserEls |-> "block"]]
        nm == GetProp(p2.currentUser, NameKey)
    IN IF nm.threw THEN [p2 EXCEPT !.threw = TRUE] ELSE p2

updateUIForLoggedInUser(pg) ==
    LET p1 == [pg EXCEPT !.guestDisplay = [e \in GuestEls |-> "none"]]
        p2 == [p1 EXCEPT !.userDisplay = [e \in UserEls |-> "block"]]
        nm == GetProp(p2.currentUser, NameKey)
    IN IF nm.threw THEN [p2 EXCEPT !.threw = TRUE]
       ELSE [p2 EXCEPT !.usernameText = TextContentOf(nm.val)]

initializeAuthLongToken(st, pg) ==
    LET authToken == getItem(st, "authToken")
        userData == getItem(st, "user")
    IN IF Truthy(authToken) /\ Len(authToken.str) > 2 /\ Truthy(userData)
       THEN LET r == JSONparse(userData.str)
            IN IF r.threw THEN [pg EXCEPT !.threw = TRUE]
               ELSE updateUIForLoggedInUser([pg EXCEPT !.currentUser = r.val])
       ELSE updateUIForGuest(pg)

initializeAuthEither(st, pg) ==
    LET authToken == getItem(st, "authToken")
        userData == getItem(st, "user")
    IN IF Truthy(authToken) \/ Truthy(userData)
       THEN LET r == JSONparse(userData.str)
            IN IF r.threw THEN [pg EXCEPT !.threw = TRUE]
               ELSE updateUIForLoggedInUser([pg EXCEPT !.currentUser = r.val])
       ELSE updateUIForGuest(pg)

initializeAuth(st, pg) ==
    LET authToken == getItem(st, "authToken")
        userData == getItem(st, "user")
    IN IF Truthy(authToken) /\ Truthy(userData)
       THEN LET r == JSONparse(userData.str)
            IN IF r.threw THEN [pg EXCEPT !.threw = TRUE]
               ELSE updateUIForLoggedInUser([pg EXCEPT !.currentUser = r.val])
       ELSE updateUIForGuest(pg)

logoutStorageTokenOnly(st) == removeItem(st, "authToken")

logoutStorageBlank(st) == setItem(setItem(st, "authToken", <<>>), "user", <<>>)

logoutStorageKept(st) == st

(* the storage after each of the two removeItem calls of handleLogout      *)
logoutStorageSteps(st) ==
    LET s1 == removeItem(st, "authToken")
    IN <<s1, removeItem(s1, "user")>>

(* the storage after handleLogout *)
logoutStorage(st) == logoutStorageSteps(st)[2]

logoutPageStepsNavigateFirst(pg) ==
    LET p1 == [pg EXCEPT !.href = LoginPath]
        p2 == [p1 EXCEPT !.currentUser = JSNull]
    IN <<p1, p2, updateUIForGuest(p2)>>

(* the page after each of the last three statements of handleLogout        *)
logoutPageSteps(pg) ==
    LET p1 == [pg EXCEPT !.currentUser = JSNull]
        p2 == updateUIForGuest(p1)
    IN <<p1, p2, [p2 EXCEPT !.href = LoginPath]>>

(* the page after handleLogout *)
handleLogout(pg) == logoutPageSteps(pg)[3]

(* storage and page after each of the five statements of handleLogout      *)
handleLogoutTrace(st, pg) ==
    LET ss == logoutStorageSteps(st)
        ps == logoutPageSteps(pg)
    IN << [storage |-> ss[1], page |-> pg],
          [storage |-> ss[2], page |-> pg],
          [storage |-> logoutStorage(st), page |-> ps[1]],
          [storage |-> logoutStorage(st), page |-> ps[2]],
          [storage |-> logoutStorage(st), page |-> ps[3]] >>

(* ---------------- FormGuard ---------------- *)
submitListenerByLength(p, c) ==
    IF Len(p) # Len(c)
    THEN [defaultPrevented |-> TRUE, alertMessage |-> MismatchMessage]
    ELSE [defaultPrevented |-> FALSE, alertMessage |-> ""]

submitListenerSticky(p, c) ==
    IF p # c \/ defaultPrevented
    THEN [defaultPrevented |-> TRUE, alertMessage |-> MismatchMessage]
    ELSE [defaultPrevented |-> FALSE, alertMessage |-> ""]

(* the submit listener: what it does to the event and the alert it shows   *)
submitListener(p, c) ==
    IF p # c
    THEN [defaultPrevented |-> TRUE, alertMessage |-> MismatchMessage]
    ELSE [defaultPrevented |-> FALSE, alertMessage |-> ""]

(* ---------------- state machine ---------------- *)
Snapshot ==
    [ storage |-> storage, currentUser |-> currentUser,
      guestDisplay |-> guestDisplay, userDisplay |-> userDisplay,
      usernameText |-> usernameText, authPhase |-> authPhase,
      lastOp |-> lastOp, href |-> href,
      defaultPrevented |-> defaultPrevented ]

SetPage(pg) ==
    /\ currentUser' = pg.currentUser
    /\ guestDisplay' = pg.guestDisplay
    /\ userDisplay' = pg.userDisplay
    /\ usernameText' = pg.usernameText
    /\ href' = pg.href

formVars == <<formReady, password, confirmPassword, defaultPrevented, alertMessage>>
pageVars == <<currentUser, guestDisplay, userDisplay, usernameText, href>>

Init ==
    /\ storage \in Storages
    /\ currentUser = FreshPage.currentUser
    /\ guestDisplay = FreshPage.guestDisplay
    /\ userDisplay = FreshPage.userDisplay
    /\ usernameText = FreshPage.usernameText
    /\ href = FreshPage.href
    /\ authPhase = "pending"
    /\ formReady = FALSE
    /\ password = <<>>
    /\ confirmPassword = <<>>
    /\ defaultPrevented = FALSE
    /\ alertMessage = ""
    /\ lastOp = "load"
    /\ before = Snapshot
    /\ sessionDestroyed = FALSE
    /\ logoutTrace = <<>>

InitializeAuthOnEveryEvent ==
    /\ LET pg == initializeAuth(storage, ThePage)
       IN /\ SetPage(pg)
          /\ authPhase' = IF pg.threw THEN "threw" ELSE "completed"
    /\ lastOp' = "initializeAuth"
    /\ before' = Snapshot
    /\ logoutTrace' = <<>>
    /\ UNCHANGED sessionDestroyed
    /\ UNCHANGED <<storage, formVars>>

(* DOMContentLoaded of the authentication script: initializeAuth           *)
InitializeAuth ==
    /\ authPhase = "pending"
    /\ LET pg == initializeAuth(storage, ThePage)
       IN /\ SetPage(pg)
          /\ authPhase' = IF pg.threw THEN "threw" ELSE "completed"
    /\ lastOp' = "initializeAuth"
    /\ before' = Snapshot
    /\ logoutTrace' = <<>>
    /\ UNCHANGED sessionDestroyed
    /\ UNCHANGED <<storage, formVars>>

(* DOMContentLoaded of custom-scripts.js: the submit listener is attached  *)
AttachSubmitListener ==
    /\ ~formReady
    /\ formReady' = TRUE
    /\ lastOp' = "attach"
    /\ before' = Snapshot
    /\ logoutTrace' = <<>>
    /\ UNCHANGED sessionDestroyed
    /\ UNCHANGED <<storage, pageVars, authPhase, password, confirmPassword,
                   defaultPrevented, alertMessage>>

(* a submit event of the signup form with the field values p and c         *)
Submit ==
    /\ formReady
    /\ \E p \in FieldValues, c \in FieldValues :
         /\ password' = p
         /\ confirmPassword' = c
         /\ defaultPrevented' = submitListener(p, c).defaultPrevented
         /\ alertMessage' = submitListener(p, c).alertMessage
    /\ lastOp' = "submit"
    /\ before' = Snapshot
    /\ logoutTrace' = <<>>
    /\ UNCHANGED sessionDestroyed
    /\ UNCHANGED <<storage, pageVars, authPhase, formReady>>

(* a call of handleLogout                                                  *)
HandleLogout ==
    /\ storage' = logoutStorage(storage)
    /\ SetPage(handleLogout(ThePage))
    /\ lastOp' = "handleLogout"
    /\ before' = Snapshot
    /\ logoutTrace' = handleLogoutTrace(storage, ThePage)
    /\ sessionDestroyed' = TRUE
    /\ UNCHANGED <<authPhase, formVars>>

(* the external login flow, or another page, writes or removes an entry    *)
ExternalSetItem ==
    /\ \E k \in Keys : \E v \in ValuesOf(k) :
         /\ getItem(storage, k) # JSString(v)
         /\ storage' = setItem(storage, k, v)
    /\ lastOp' = "external"
    /\ before' = Snapshot
    /\ logoutTrace' = <<>>
    /\ sessionDestroyed' = FALSE
    /\ UNCHANGED <<pageVars, authPhase, formVars>>

ExternalRemoveItem ==
    /\ \E k \in DOMAIN storage : storage' = removeItem(storage, k)
    /\ lastOp' = "external"
    /\ before' = Snapshot
    /\ logoutTrace' = <<>>
    /\ UNCHANGED sessionDestroyed
    /\ UNCHANGED <<pageVars, authPhase, formVars>>

(* the document is loaded anew: the scripts are evaluated again            *)
PageLoad ==
    /\ SetPage(FreshPage)
    /\ authPhase' = "pending"
    /\ formReady' = FALSE
    /\ password' = <<>>
    /\ confirmPassword' = <<>>
    /\ defaultPrevented' = FALSE
    /\ alertMessage' = ""
    /\ lastOp' = "load"
    /\ before' = Snapshot
    /\ logoutTrace' = <<>>
    /\ UNCHANGED sessionDestroyed
    /\ UNCHANGED storage

Next ==
    \/ InitializeAuth
    \/ AttachSubmitListener
    \/ Submit
    \/ HandleLogout
    \/ ExternalSetItem
    \/ ExternalRemoveItem
    \/ PageLoad

Spec == Init /\ [][Next]_vars

(* ---------------- states of the session machine ---------------- *)
AllGuestShown(s) == \A e \in GuestEls : s.guestDisplay[e] = "block"
AllGuestHidden(s) == \A e \in GuestEls : s.guestDisplay[e] = "none"
AllUserShown(s) == \A e \in UserEls : s.userDisplay[e] = "block"
AllUserHidden(s) == \A e \in UserEls : s.userDisplay[e] = "none"

GuestUI(s) == AllGuestShown(s) /\ AllUserHidden(s)
UserUI(s) == AllUserShown(s) /\ AllGuestHidden(s)

IsGuest(s) == GuestUI(s) /\ s.currentUser = JSNull
IsAuthenticated(s) == UserUI(s) /\ s.currentUser.kind = "object"

TypeOK ==
    /\ storage \in Storages
    /\ authPhase \in {"pending", "completed", "threw"}
    /\ href \in {NoNavigation, LoginPath}
    /\ formReady \in BOOLEAN
    /\ defaultPrevented \in BOOLEAN

Now == Snapshot

HasToken(st) == "authToken" \in DOMAIN st
HasUser(st) == "user" \in DOMAIN st

SameString(p, c) ==
    /\ Len(p) = Len(c)
    /\ \A i \in 1..Len(p) : p[i] = c[i]

(* ---------------- claims ---------------- *)

(* C1: on every submit event the default action is cancelled and the      *)
(* mismatch alert is shown if and only if the two field values are not the *)
(* same string; with equal values (two empty strings included) nothing is  *)
(* cancelled and no alert is shown.                                        *)
C1_SubmitBlockedIffDifferent ==
    lastOp = "submit" =>
        /\ defaultPrevented <=> ~SameString(password, confirmPassword)
        /\ (alertMessage = MismatchMessage) <=> ~SameString(password, confirmPassword)
        /\ SameString(password, confirmPassword) => alertMessage = ""

C1_Witness ==
    /\ lastOp = "submit"
    /\ password = <<"x">>
    /\ confirmPassword = <<"y">>
    /\ defaultPrevented
    /\ alertMessage = MismatchMessage

(* C2 as stated: with both entries present and a well-formed profile,      *)
(* initializeAuth ends Authenticated with the profile's name displayed.    *)
C2_PresentEntriesAuthenticate ==
    \A p \in WellFormedProfiles :
        ( /\ lastOp = "initializeAuth"
          /\ HasToken(before.storage)
          /\ HasUser(before.storage)
          /\ before.storage["user"] = p.text )
        => /\ authPhase = "completed"
           /\ UserUI(Now)
           /\ currentUser = p.value
           /\ usernameText = p.name

(* C2 amended: with both entries present, the authToken value a non-empty  *)
(* string and a well-formed profile, initializeAuth ends Authenticated     *)
(* with currentUser the parsed profile and the profile's name displayed.   *)
C2_NonEmptyTokenAuthenticates ==
    \A p \in WellFormedProfiles :
        ( /\ lastOp = "initializeAuth"
          /\ HasToken(before.storage)
          /\ before.storage["authToken"] # <<>>
          /\ HasUser(before.storage)
          /\ before.storage["user"] = p.text )
        => /\ authPhase = "completed"
           /\ UserUI(Now)
           /\ currentUser = p.value
           /\ usernameText = p.name

C2_Witness ==
    /\ lastOp = "initializeAuth"
    /\ before.storage = [authToken |-> <<"a", "b", "c", "1", "2", "3">>,
                         user |-> ProfileText(Ada)]
    /\ UserUI(Now)
    /\ usernameText = Ada

(* C3: when the authToken entry or the user entry is absent,               *)
(* initializeAuth ends in Guest: guest-only shown, user-only hidden,       *)
(* currentUser null.                                                       *)
C3_AbsentEntryGivesGuest ==
    ( /\ lastOp = "initializeAuth"
      /\ ~HasToken(before.storage) \/ ~HasUser(before.storage) )
    => /\ authPhase = "completed"
       /\ IsGuest(Now)

C3_Witness ==
    /\ lastOp = "initializeAuth"
    /\ HasToken(before.storage)
    /\ before.storage["authToken"] # <<>>
    /\ ~HasUser(before.storage)
    /\ IsGuest(Now)

(* C4: with the authToken entry present and a user entry that does not     *)
(* parse, initializeAuth ends in Guest and not in an error.                *)
C4_MalformedProfileGivesGuest ==
    ( /\ lastOp = "initializeAuth"
      /\ HasToken(before.storage)
      /\ HasUser(before.storage)
      /\ before.storage["user"] \in MalformedTexts )
    => /\ authPhase = "completed"
       /\ IsGuest(Now)

(* C5: once the load event has been handled, and after any logout calls,   *)
(* exactly one visibility class is displayed: guest-only shown and         *)
(* user-only hidden, or user-only shown and guest-only hidden.             *)
C5_ExactlyOneClassVisible ==
    authPhase # "pending" =>
        \/ AllGuestShown(Now) /\ AllUserHidden(Now)
        \/ AllUserShown(Now) /\ AllGuestHidden(Now)

(* C6: handleLogout called in the Authenticated state leaves both storage  *)
(* entries absent, currentUser null, guest-only shown, user-only hidden,   *)
(* and the navigation to /login.html triggered.                            *)
C6_LogoutFromAuthenticated ==
    ( /\ lastOp = "handleLogout"
      /\ IsAuthenticated(before) )
    => /\ ~HasToken(storage)
       /\ ~HasUser(storage)
       /\ currentUser = JSNull
       /\ AllGuestShown(Now)
       /\ AllUserHidden(Now)
       /\ href = LoginPath

C6_Witness ==
    /\ lastOp = "handleLogout"
    /\ IsAuthenticated(before)
    /\ before.authPhase = "completed"
    /\ DOMAIN before.storage = Keys
    /\ DOMAIN storage = {}
    /\ href = LoginPath

(* C7: of two handleLogout calls in succession, both leave the state at    *)
(* Guest and the second changes neither storage, currentUser nor the       *)
(* visibility of either class.                                             *)
C7_LogoutIdempotent ==
    ( /\ lastOp = "handleLogout"
      /\ before.lastOp = "handleLogout" )
    => /\ IsGuest(before)
       /\ IsGuest(Now)
       /\ storage = before.storage
       /\ currentUser = before.currentUser
       /\ guestDisplay = before.guestDisplay
       /\ userDisplay = before.userDisplay

C7_Witness ==
    /\ lastOp = "handleLogout"
    /\ before.lastOp = "handleLogout"
    /\ authPhase = "completed"
    /\ IsGuest(Now)
    /\ usernameText = Ada

(* C8: within one page load, once the state is Guest it stays Guest: no    *)
(* submit event, handleLogout call or external write to storage makes      *)
(* currentUser non-null or shows the user-only elements.  The only steps   *)
(* exempt are a new page load and the initial transition itself (the one   *)
(* run of initializeAuth on DOMContentLoaded).                             *)
C8_GuestStaysGuest ==
    ( /\ lastOp # "load"
      /\ ~(lastOp = "initializeAuth" /\ before.authPhase = "pending")
      /\ IsGuest(before) )
    => /\ currentUser = JSNull
       /\ AllUserHidden(Now)
       /\ IsGuest(Now)

C8_Witness ==
    /\ lastOp = "external"
    /\ before.authPhase = "completed"
    /\ IsGuest(before)
    /\ storage = [authToken |-> <<"t", "2">>, user |-> ProfileText(Bo)]
    /\ IsGuest(Now)

(* C9: initializeAuth leaves storage unchanged; the only change the        *)
(* scripts make to storage is handleLogout removing both entries; no       *)
(* action of the scripts creates or overwrites an entry.                   *)
C9_StorageFrame ==
    /\ lastOp = "initializeAuth" => storage = before.storage
    /\ (lastOp # "external" /\ storage # before.storage)
         => (lastOp = "handleLogout" /\ DOMAIN storage = {})
    /\ lastOp # "external" =>
         \A k \in DOMAIN storage :
            k \in DOMAIN before.storage /\ storage[k] = before.storage[k]

C9_Witness ==
    /\ lastOp = "handleLogout"
    /\ DOMAIN before.storage = Keys
    /\ before.storage["authToken"] # <<>>
    /\ DOMAIN storage = {}

(* C10: every invocation of initializeAuth, of the submit listener and of  *)
(* handleLogout reaches its final step; none stops with an error.          *)
C10_EveryOperationCompletes ==
    /\ authPhase # "threw"
    /\ lastOp = "initializeAuth" => authPhase = "completed"

(* the page part of a snapshot, as the handlers take it                    *)
PageOf(s) ==
    [ currentUser |-> s.currentUser,
      guestDisplay |-> s.guestDisplay,
      userDisplay |-> s.userDisplay,
      usernameText |-> s.usernameText,
      href |-> s.href,
      threw |-> FALSE ]

(* the storage without the entries whose value is the empty string         *)
WithoutEmptyEntries(st) == [k \in {x \in DOMAIN st : st[x] # <<>>} |-> st[k]]

(* does the page now carry the outcome pg of initializeAuth                *)
SameOutcome(pg) ==
    /\ pg.currentUser = currentUser
    /\ pg.usernameText = usernameText
    /\ pg.guestDisplay = guestDisplay
    /\ pg.userDisplay = userDisplay
    /\ pg.threw = (authPhase = "threw")

(* C11: once handleLogout has run and the external login flow has written  *)
(* nothing to storage since, every later run of initializeAuth (every      *)
(* later page load) ends in Guest.                                         *)
C11_DestroyedSessionStaysGone ==
    ( /\ lastOp = "initializeAuth"
      /\ sessionDestroyed )
    => /\ authPhase = "completed"
       /\ IsGuest(Now)

C11_Witness ==
    /\ lastOp = "initializeAuth"
    /\ sessionDestroyed
    /\ before.lastOp = "load"
    /\ DOMAIN storage = {}
    /\ IsGuest(Now)

(* C12: handleLogout removes authToken, removes user, sets currentUser to  *)
(* null, applies the Guest visibility and only then triggers the           *)
(* navigation: the call sets href in its last statement, when both entries *)
(* are gone, currentUser is null and the user-only elements are hidden.    *)
C12_LogoutStepOrder ==
    lastOp = "handleLogout" =>
        /\ Len(logoutTrace) = 5
        /\ ~HasToken(logoutTrace[1].storage)
        /\ HasUser(logoutTrace[1].storage) <=> HasUser(before.storage)
        /\ logoutTrace[1].page = PageOf(before)
        /\ DOMAIN logoutTrace[2].storage = {}
        /\ logoutTrace[2].page = PageOf(before)
        /\ logoutTrace[3].page.currentUser = JSNull
        /\ logoutTrace[3].page.userDisplay = before.userDisplay
        /\ logoutTrace[3].page.guestDisplay = before.guestDisplay
        /\ GuestUI(logoutTrace[4].page)
        /\ \A i \in 1..4 : logoutTrace[i].page.href = before.href
        /\ logoutTrace[5].page.href = LoginPath
        /\ logoutTrace[5].storage = storage
        /\ logoutTrace[5].page = PageOf(Now)
        /\ \A i \in 1..5 :
             (before.href = NoNavigation /\ logoutTrace[i].page.href = LoginPath)
             => /\ DOMAIN logoutTrace[i].storage = {}
                /\ logoutTrace[i].page.currentUser = JSNull
                /\ AllUserHidden(logoutTrace[i].page)

C12_Witness ==
    /\ lastOp = "handleLogout"
    /\ before.href = NoNavigation
    /\ IsAuthenticated(before)
    /\ DOMAIN before.storage = Keys
    /\ Len(logoutTrace) = 5
    /\ HasUser(logoutTrace[1].storage)
    /\ logoutTrace[4].page.href = NoNavigation
    /\ GuestUI(logoutTrace[4].page)
    /\ href = LoginPath

(* C13: once initializeAuth has completed in Authenticated, a removal or   *)
(* change of a storage entry by another actor changes neither currentUser, *)
(* the displayed name nor the visibility of either class; the page stays   *)
(* Authenticated until handleLogout is called (or the page is loaded anew).*)
C13_SessionReadOncePerLoad ==
    ( /\ lastOp \notin {"handleLogout", "load"}
      /\ before.authPhase = "completed"
      /\ IsAuthenticated(before) )
    => /\ currentUser = before.currentUser
       /\ usernameText = before.usernameText
       /\ guestDisplay = before.guestDisplay
       /\ userDisplay = before.userDisplay
       /\ IsAuthenticated(Now)

C13_Witness ==
    /\ lastOp = "external"
    /\ before.authPhase = "completed"
    /\ IsAuthenticated(before)
    /\ before.storage = [authToken |-> <<"t", "2">>, user |-> ProfileText(Ada)]
    /\ DOMAIN storage = {"user"}
    /\ IsAuthenticated(Now)
    /\ usernameText = Ada

(* C14: validation keeps no state between submit attempts: a blocked       *)
(* attempt followed by an attempt with equal values proceeds, an allowed   *)
(* attempt followed by an attempt with different values is blocked.        *)
C14_SubmitStateless ==
    ( /\ lastOp = "submit"
      /\ before.lastOp = "submit" )
    => /\ (before.defaultPrevented /\ SameString(password, confirmPassword))
            => (~defaultPrevented /\ alertMessage = "")
       /\ (~before.defaultPrevented /\ ~SameString(password, confirmPassword))
            => (defaultPrevented /\ alertMessage = MismatchMessage)

C14_Witness ==
    /\ lastOp = "submit"
    /\ before.lastOp = "submit"
    /\ before.defaultPrevented
    /\ password = <<"x">>
    /\ confirmPassword = <<"x">>
    /\ ~defaultPrevented

(* C15: in every reachable state, when the user-only elements are shown    *)
(* currentUser is a non-null profile object.                               *)
C15_UserUIImpliesCurrentUser ==
    AllUserShown(Now) => currentUser.kind = "object"

(* C16: for the same user entry and any two non-empty authToken strings,   *)
(* initializeAuth gives the same currentUser, the same displayed name and  *)
(* the same visibility of both classes.                                    *)
C16_TokenValueNotInspected ==
    ( /\ lastOp = "initializeAuth"
      /\ HasToken(before.storage)
      /\ before.storage["authToken"] # <<>> )
    => \A t \in TokenTexts \ {<<>>} :
          SameOutcome(initializeAuth(setItem(before.storage, "authToken", t),
                                     PageOf(before)))

C16_Witness ==
    /\ lastOp = "initializeAuth"
    /\ before.storage = [authToken |-> <<"t", "2">>, user |-> IdAdaText]
    /\ IsAuthenticated(Now)
    /\ usernameText = Ada
    /\ SameOutcome(initializeAuth(
           [authToken |-> <<"a", "b", "c", "1", "2", "3">>, user |-> IdAdaText],
           PageOf(before)))

(* C17: an entry whose value is the empty string is treated like an absent *)
(* entry: initializeAuth takes the Authenticated branch (parses the        *)
(* profile) if and only if both stored values are non-empty strings, and   *)
(* otherwise completes in Guest.                                           *)
C17_EmptyEntryLikeAbsent ==
    lastOp = "initializeAuth" =>
        LET bothNonEmpty == DOMAIN WithoutEmptyEntries(before.storage) = Keys
        IN /\ bothNonEmpty => (authPhase = "threw" \/ UserUI(Now))
           /\ ~bothNonEmpty => (authPhase = "completed" /\ IsGuest(Now))
           /\ SameOutcome(initializeAuth(WithoutEmptyEntries(before.storage),
                                         PageOf(before)))

C17_Witness ==
    /\ lastOp = "initializeAuth"
    /\ before.storage = [authToken |-> <<"t", "2">>, user |-> <<>>]
    /\ authPhase = "completed"
    /\ IsGuest(Now)

====
